---- MODULE Spec2Model ----
(***************************************************************************)
(* Solar-assisted e-bike range calculator (src/app.py).                    *)
(*                                                                         *)
(* The script is executed top to bottom for one set of widget values.      *)
(* Python floats are modelled as exact rationals over arbitrary-size       *)
(* naturals (TLC integers are 32 bit, the script's magnitudes are not):    *)
(* every +, -, *, /, max, min of the source is the corresponding exact     *)
(* operation, so a result differs from the float result by the float       *)
(* rounding only.  math.cos and math.sin(math.atan(.)) are tabulated with  *)
(* the double values CPython returns for the angles and grades used.       *)
(***************************************************************************)
EXTENDS Integers, Sequences, FiniteSets, TLC

(***************************************************************************)
(* Naturals of arbitrary size: little-endian sequences of limbs in         *)
(* 0 .. Base-1 without leading zero limb; <<>> is 0.                       *)
(***************************************************************************)
Base == 10 ^ 4

RECURSIVE BInt(_)
BInt(k) == IF k = 0 THEN <<>> ELSE <<k % Base>> \o BInt(k \div Base)

RECURSIVE BStrip(_)
BStrip(a) ==
    IF a = <<>> THEN <<>>
    ELSE IF a[Len(a)] = 0 THEN BStrip(SubSeq(a, 1, Len(a) - 1))
    ELSE a

RECURSIVE BAddC(_, _, _)
BAddC(a, b, c) ==
    IF a = <<>> /\ b = <<>>
    THEN IF c = 0 THEN <<>> ELSE <<c>>
    ELSE LET x == (IF a = <<>> THEN 0 ELSE Head(a))
                  + (IF b = <<>> THEN 0 ELSE Head(b)) + c
         IN  <<x % Base>> \o BAddC(IF a = <<>> THEN <<>> ELSE Tail(a),
                                   IF b = <<>> THEN <<>> ELSE Tail(b),
                                   x \div Base)

BAdd(a, b) == BAddC(a, b, 0)

\* a - b for a >= b, before stripping.
RECURSIVE BSubC(_, _, _)
BSubC(a, b, c) ==
    IF a = <<>> THEN <<>>
    ELSE LET x == Head(a) - (IF b = <<>> THEN 0 ELSE Head(b)) - c
         IN  <<x % Base>> \o BSubC(Tail(a),
                                   IF b = <<>> THEN <<>> ELSE Tail(b),
                                   IF x < 0 THEN 1 ELSE 0)

BSub(a, b) == BStrip(BSubC(a, b, 0))

RECURSIVE BMulSmallC(_, _, _)
BMulSmallC(a, k, c) ==
    IF a = <<>>
    THEN IF c = 0 THEN <<>> ELSE <<c>>
    ELSE LET x == Head(a) * k + c
         IN  <<x % Base>> \o BMulSmallC(Tail(a), k, x \div Base)

BMulSmall(a, k) == IF k = 0 THEN <<>> ELSE BMulSmallC(a, k, 0)

BShift(a) == IF a = <<>> THEN <<>> ELSE <<0>> \o a

RECURSIVE BMul(_, _)
BMul(a, b) ==
    IF a = <<>> \/ b = <<>> THEN <<>>
    ELSE BAdd(BMulSmall(a, Head(b)), BShift(BMul(a, Tail(b))))

\* -1, 0, 1 as a < b, a = b, a > b.
RECURSIVE BCmpTop(_, _, _)
BCmpTop(a, b, i) ==
    IF i = 0 THEN 0
    ELSE IF a[i] < b[i] THEN -1
    ELSE IF a[i] > b[i] THEN 1
    ELSE BCmpTop(a, b, i - 1)

BCmp(a, b) ==
    IF Len(a) < Len(b) THEN -1
    ELSE IF Len(a) > Len(b) THEN 1
    ELSE BCmpTop(a, b, Len(a))

\* The largest q in lo .. hi with b * q <= r (b * lo <= r is given).
RECURSIVE BQuotDigit(_, _, _, _)
BQuotDigit(r, b, lo, hi) ==
    IF lo = hi THEN lo
    ELSE LET mid == (lo + hi + 1) \div 2
         IN  IF BCmp(BMulSmall(b, mid), r) <= 0
             THEN BQuotDigit(r, b, mid, hi)
             ELSE BQuotDigit(r, b, lo, mid - 1)

\* Long division of the limbs a[1 .. i] (most significant first) by b > 0:
\* <<quotient, remainder>>.
RECURSIVE BDivModTop(_, _, _)
BDivModTop(a, b, i) ==
    IF i > Len(a) THEN <<(<<>>), (<<>>)>>
    ELSE LET up  == BDivModTop(a, b, i + 1)
             r   == BStrip(<<a[i]>> \o up[2])
             q   == BQuotDigit(r, b, 0, Base - 1)
         IN  <<BStrip(<<q>> \o up[1]), BSub(r, BMulSmall(b, q))>>

BDivMod(a, b) == BDivModTop(a, b, 1)

BDiv(a, b) == BDivMod(a, b)[1]
BMod(a, b) == BDivMod(a, b)[2]

RECURSIVE BToInt(_)
BToInt(a) == IF a = <<>> THEN 0 ELSE Head(a) + Base * BToInt(Tail(a))

BEven(a) == a = <<>> \/ Head(a) % 2 = 0

RECURSIVE BPow10(_)
BPow10(e) == IF e = 0 THEN <<1>> ELSE BMulSmall(BPow10(e - 1), 10)

(***************************************************************************)
(* Floats as exact rationals [sg, n, d]: sign -1, 0 or 1, numerator n and  *)
(* denominator d > 0 as naturals above.  Common factors Base of n and d    *)
(* are dropped; two representations of one number are compared with REq.   *)
(***************************************************************************)
Zero == [sg |-> 0, n |-> <<>>, d |-> <<1>>]

RECURSIVE RMake(_, _, _)
RMake(sg, n, d) ==
    IF n = <<>> \/ sg = 0 THEN Zero
    ELSE IF Head(n) = 0 /\ Head(d) = 0 THEN RMake(sg, Tail(n), Tail(d))
    ELSE [sg |-> sg, n |-> n, d |-> d]

RInt(k) == IF k = 0 THEN Zero
           ELSE IF k < 0 THEN [sg |-> -1, n |-> BInt(-k), d |-> <<1>>]
           ELSE [sg |-> 1, n |-> BInt(k), d |-> <<1>>]

\* The decimal literal k * 10^(-e).
RDec(k, e) == IF k = 0 THEN Zero
              ELSE RMake(IF k < 0 THEN -1 ELSE 1,
                         BInt(IF k < 0 THEN -k ELSE k), BPow10(e))

\* The decimal literal (hi * 10^8 + lo) * 10^(-e) of a double with up to 17
\* significant digits; sg is its sign.
RDec17(sg, hi, lo, e) ==
    RMake(sg, BAdd(BMul(BInt(hi), BPow10(8)), BInt(lo)), BPow10(e))

RNeg(x) == [x EXCEPT !.sg = -x.sg]

\* -1, 0, 1 as x < y, x = y, x > y.
RCmp(x, y) ==
    IF x.sg # y.sg THEN (IF x.sg < y.sg THEN -1 ELSE 1)
    ELSE IF x.sg = 0 THEN 0
    ELSE x.sg * BCmp(BMul(x.n, y.d), BMul(y.n, x.d))

REq(x, y) == RCmp(x, y) = 0
RLt(x, y) == RCmp(x, y) < 0
RLe(x, y) == RCmp(x, y) <= 0
RGt(x, y) == RCmp(x, y) > 0
RGe(x, y) == RCmp(x, y) >= 0

RAdd(x, y) ==
    IF x.sg = 0 THEN y
    ELSE IF y.sg = 0 THEN x
    ELSE LET nx == IF x.d = y.d THEN x.n ELSE BMul(x.n, y.d)
             ny == IF x.d = y.d THEN y.n ELSE BMul(y.n, x.d)
             d  == IF x.d = y.d THEN x.d ELSE BMul(x.d, y.d)
             c  == BCmp(nx, ny)
         IN  IF x.sg = y.sg THEN RMake(x.sg, BAdd(nx, ny), d)
             ELSE IF c = 0 THEN Zero
             ELSE IF c > 0 THEN RMake(x.sg, BSub(nx, ny), d)
             ELSE RMake(y.sg, BSub(ny, nx), d)

RSub(x, y) == RAdd(x, RNeg(y))

RMul(x, y) == RMake(x.sg * y.sg, BMul(x.n, y.n), BMul(x.d, y.d))

\* x / y for y # 0.
RDiv(x, y) == RMake(x.sg * y.sg, BMul(x.n, y.d), BMul(x.d, y.n))

\* Python's max(a, b) and min(a, b): a unless b is greater (smaller).
RMax(a, b) == IF RGt(b, a) THEN b ELSE a
RMin(a, b) == IF RLt(b, a) THEN b ELSE a

\* Python's x / y: ZeroDivisionError for y = 0.  The raised exception is the
\* value with an empty denominator.
ZeroDivisionError == [sg |-> 0, n |-> <<>>, d |-> <<>>]
Raised(v) == v.d = <<>>
PyDiv(x, y) == IF Raised(x) \/ Raised(y) \/ y.sg = 0 THEN ZeroDivisionError
               ELSE RDiv(x, y)

\* PyRound that truncates, as int(x) does.
PyRound_Truncate(x) == BDiv(x.n, x.d)

\* Python's round(x) for x >= 0: the nearest integer, a tie to the even one.
PyRound(x) ==
    LET q     == BDiv(x.n, x.d)
        twice == BMulSmall(BMod(x.n, x.d), 2)
        c     == BCmp(twice, x.d)
        up    == BAdd(q, <<1>>)
    IN  IF c < 0 THEN q
        ELSE IF c > 0 THEN up
        ELSE IF BEven(q) THEN q ELSE up

(***************************************************************************)
(* Constants and parameters.                                               *)
(***************************************************************************)
CDA        == RDec(45, 2)
CRR        == RDec(8, 3)
RHO        == RDec(1225, 3)
G_GRAV     == RDec(981, 2)
EFF_MOTOR  == RDec(85, 2)
G_STC      == RInt(1000)
system_eff == RDec(5, 1)

\* The floor on the net battery draw, 1e-6 W.
EPS_NET == RDec(1, 6)

(***************************************************************************)
(* Helper functions.                                                       *)
(***************************************************************************)
None == [none |-> TRUE]
IsNone(v) == "none" \in DOMAIN v

format_hours_minutes(hours) ==
    IF IsNone(hours) THEN "0 h 0 min"
    ELSE IF RLe(hours, Zero) THEN "0 h 0 min"
    ELSE LET total_minutes == PyRound(RMul(hours, RInt(60)))
             h == BDiv(total_minutes, BInt(60))
             m == BMod(total_minutes, BInt(60))
         IN  ToString(BToInt(h)) \o " h " \o ToString(BToInt(m)) \o " min"

\* battery_temp_factor without the 0.65 floor below 0 degrees.
battery_temp_factor_NoFloor(temp_c) ==
    IF temp_c >= 25 THEN RInt(1)
    ELSE IF temp_c >= 0
    THEN RSub(RInt(1), RMul(RInt(25 - temp_c), RDec(6, 3)))
    ELSE RAdd(RDec(85, 2), RMul(RInt(temp_c), RDec(2, 2)))

battery_temp_factor(temp_c) ==
    IF temp_c >= 25 THEN RInt(1)
    ELSE IF temp_c >= 0
    THEN RSub(RInt(1), RMul(RInt(25 - temp_c), RDec(6, 3)))
    ELSE RMax(RDec(65, 2), RAdd(RDec(85, 2), RMul(RInt(temp_c), RDec(2, 2))))

(***************************************************************************)
(* Location database: grade [%] and irradiance G [W/m^2].  The names are   *)
(* the source's keys written without diacritics.                           *)
(***************************************************************************)
VLASTNI == "Vlastni nastaveni"

LOKALITA_DATA ==
    [l \in {"Kladno (centrum - mesto)", "Kladno (Dubi / lesni okraj)",
            "Bustehrad", "Unhost", "Slany", "Stochov + Lany",
            "Lidice / Makotrasy", "Praha (centrum)", "Praha (zapad)",
            "Praha (vychod)", "Beroun", "Karlstejn", "Kralupy n. Vltavou",
            "Melnik", "Rakovnik", "Plzen", "Ceske Budejovice",
            "Hradec Kralove", "Brno", "Ostrava", VLASTNI} |->
        CASE l = "Kladno (centrum - mesto)"    -> [sklon |-> RDec(12, 1), G |-> 650]
          [] l = "Kladno (Dubi / lesni okraj)" -> [sklon |-> RDec(18, 1), G |-> 640]
          [] l = "Bustehrad"                   -> [sklon |-> RDec(10, 1), G |-> 650]
          [] l = "Unhost"                      -> [sklon |-> RDec(14, 1), G |-> 660]
          [] l = "Slany"                       -> [sklon |-> RDec(13, 1), G |-> 655]
          [] l = "Stochov + Lany"              -> [sklon |-> RDec(22, 1), G |-> 635]
          [] l = "Lidice / Makotrasy"          -> [sklon |-> RDec(11, 1), G |-> 665]
          [] l = "Praha (centrum)"             -> [sklon |-> RDec(18, 1), G |-> 640]
          [] l = "Praha (zapad)"               -> [sklon |-> RDec(22, 1), G |-> 645]
          [] l = "Praha (vychod)"              -> [sklon |-> RDec(16, 1), G |-> 645]
          [] l = "Beroun"                      -> [sklon |-> RDec(28, 1), G |-> 650]
          [] l = "Karlstejn"                   -> [sklon |-> RDec(35, 1), G |-> 630]
          [] l = "Kralupy n. Vltavou"          -> [sklon |-> RDec(17, 1), G |-> 645]
          [] l = "Melnik"                      -> [sklon |-> RDec(19, 1), G |-> 660]
          [] l = "Rakovnik"                    -> [sklon |-> RDec(21, 1), G |-> 650]
          [] l = "Plzen"                       -> [sklon |-> RDec(19, 1), G |-> 660]
          [] l = "Ceske Budejovice"            -> [sklon |-> RDec(15, 1), G |-> 680]
          [] l = "Hradec Kralove"              -> [sklon |-> RDec(9, 1),  G |-> 660]
          [] l = "Brno"                        -> [sklon |-> RDec(24, 1), G |-> 700]
          [] l = "Ostrava"                     -> [sklon |-> RDec(16, 1), G |-> 630]
          [] l = VLASTNI                       -> [sklon |-> Zero,        G |-> 650]]

\* math.cos(math.radians(deg)): the doubles CPython returns.
CosRadians(deg) ==
    CASE deg = 0  -> RInt(1)
      [] deg = 11 -> RDec17(1, 98162718, 34476640, 16)
      [] deg = 30 -> RDec17(1, 86602540, 37844387, 16)
      [] deg = 60 -> RDec17(1, 50000000, 1, 16)
      [] deg = 90 -> RDec17(1, 61232339, 95736766, 32)

\* math.sin(math.atan(x)) for x = grade / 100: the doubles CPython returns
\* for the grades of LOKALITA_DATA and of the custom slider's ends.
SinAtan(x) ==
    CASE x.sg = 0               -> Zero
      [] REq(x, RDec(-5, 2))    -> RDec17(-1, 49937616, 94389224, 17)
      [] REq(x, RDec(9, 3))     -> RDec17(1, 89996355, 22141882, 18)
      [] REq(x, RDec(10, 3))    -> RDec17(1, 99995000, 37496875, 18)
      [] REq(x, RDec(11, 3))    -> RDec17(1, 109993345, 60388038, 18)
      [] REq(x, RDec(12, 3))    -> RDec17(1, 119991360, 93300803, 18)
      [] REq(x, RDec(13, 3))    -> RDec17(1, 12998901, 63921527, 17)
      [] REq(x, RDec(14, 3))    -> RDec17(1, 139986282, 1651061, 18)
      [] REq(x, RDec(15, 3))    -> RDec17(1, 149983127, 84712241, 18)
      [] REq(x, RDec(16, 3))    -> RDec17(1, 159979523, 93132134, 18)
      [] REq(x, RDec(17, 3))    -> RDec17(1, 16997544, 3231818, 17)
      [] REq(x, RDec(18, 3))    -> RDec17(1, 179970847, 8396737, 18)
      [] REq(x, RDec(19, 3))    -> RDec17(1, 189965714, 28257877, 18)
      [] REq(x, RDec(21, 3))    -> RDec17(1, 209953710, 30975252, 18)
      [] REq(x, RDec(22, 3))    -> RDec17(1, 219946779, 31832844, 18)
      [] REq(x, RDec(24, 3))    -> RDec17(1, 23993090, 98455145, 17)
      [] REq(x, RDec(28, 3))    -> RDec17(1, 279890304, 49674348, 18)
      [] REq(x, RDec(35, 3))    -> RDec17(1, 349785821, 75618625, 18)
      [] REq(x, RDec(15, 2))    -> RDec17(1, 148340452, 93024464, 17)

(***************************************************************************)
(* The computations of the script, section by section.                     *)
(***************************************************************************)
\* Location -> grade and irradiance G.
Location(lokalita, custom_sklon, custom_G) ==
    IF lokalita = VLASTNI
    THEN [sklon_proc |-> custom_sklon, solar_G |-> custom_G]
    ELSE [sklon_proc |-> LOKALITA_DATA[lokalita].sklon,
          solar_G    |-> LOKALITA_DATA[lokalita].G]

\* P_solar = Wp * (G/1000) * cos(theta) * system_eff
SolarPower(uhel_stupne, vykon_panelu_wp, solar_G) ==
    LET cos_theta == RMax(CosRadians(uhel_stupne), Zero)
    IN  [cos_theta |-> cos_theta,
         P_solar_w |-> RMul(RMul(RMul(RInt(vykon_panelu_wp),
                                      PyDiv(RInt(solar_G), G_STC)),
                                 cos_theta),
                            system_eff)]

RideForces(hmotnost, rychlost_kmh, sklon_proc) ==
    LET v_ms    == PyDiv(RInt(rychlost_kmh), RDec(36, 1))
        F_air   == RMul(RMul(RMul(RDec(5, 1), RHO), RMul(v_ms, v_ms)), CDA)
        F_roll  == RMul(RMul(RInt(hmotnost), G_GRAV), CRR)
        F_slope == RMul(RMul(RInt(hmotnost), G_GRAV),
                        SinAtan(PyDiv(sklon_proc, RInt(100))))
        F_total == RMax(RAdd(RAdd(F_air, F_roll), F_slope), Zero)
    IN  [v_ms |-> v_ms, F_air |-> F_air, F_roll |-> F_roll,
         F_slope |-> F_slope, F_total |-> F_total,
         P_mech_required |-> RMul(F_total, v_ms)]

\* Motor draw by assist level (electrical) and on the wheel (mechanical).
MotorPower(vykon_motoru_nom, asistence_proc) ==
    LET P_motor_elec == RMul(RInt(vykon_motoru_nom),
                             PyDiv(RInt(asistence_proc), RInt(100)))
    IN  [P_motor_elec |-> P_motor_elec,
         P_motor_mech |-> RMul(P_motor_elec, EFF_MOTOR)]

\* CanHoldSpeed that tests the rider alone at every assist level.
CanHoldSpeed_RiderOnly(asistence_proc, P_rider, P_mech_total_available, P_mech_required) ==
    RGe(P_rider, P_mech_required)

\* Feasibility: with 0 % assist the rider alone is tested.
CanHoldSpeed(asistence_proc, P_rider, P_mech_total_available, P_mech_required) ==
    IF asistence_proc > 0
    THEN RGe(P_mech_total_available, P_mech_required)
    ELSE RGe(P_rider, P_mech_required)

\* NetBatteryDraw with the floor 1e-3 W in place of 1e-6 W.
NetBatteryDraw_FloorMilli(P_motor_elec, P_solar_w) ==
    RMax(RSub(P_motor_elec, P_solar_w), RDec(1, 3))

\* NetBatteryDraw with the solar power added to the draw.
NetBatteryDraw_SolarAdded(P_motor_elec, P_solar_w) ==
    RMax(RAdd(P_motor_elec, P_solar_w), EPS_NET)

\* Net battery draw of the max-range section, floored at 1e-6 W.
NetBatteryDraw(P_motor_elec, P_solar_w) ==
    RMax(RSub(P_motor_elec, P_solar_w), EPS_NET)

\* The state of the max-range section when a division raises.
RangeRaised == [raised |-> TRUE]

MaxRange(P_motor_elec, rychlost_kmh, P_solar_w, kapacita_wh_eff) ==
    IF RLe(P_motor_elec, Zero)
    THEN [raised |-> FALSE,
          spotreba_wh_km |-> Zero, spotreba_wh_km_solar |-> Zero,
          dojezd_bat |-> Zero, dojezd_solar |-> Zero, bonus_km |-> Zero,
          doba_jizdy_h |-> Zero, dodana_energie_wh |-> Zero]
    ELSE
      LET spotreba_wh_km == PyDiv(P_motor_elec, RInt(rychlost_kmh))
      IN  IF Raised(spotreba_wh_km) THEN RangeRaised
          ELSE
            LET dojezd_bat ==
                    IF RGt(spotreba_wh_km, Zero)
                    THEN PyDiv(kapacita_wh_eff, spotreba_wh_km) ELSE Zero
                P_bat_net == NetBatteryDraw(P_motor_elec, P_solar_w)
                spotreba_wh_km_solar == PyDiv(P_bat_net, RInt(rychlost_kmh))
                dojezd_solar ==
                    IF RGt(spotreba_wh_km_solar, Zero)
                    THEN PyDiv(kapacita_wh_eff, spotreba_wh_km_solar) ELSE Zero
                doba_jizdy_h == PyDiv(dojezd_solar, RInt(rychlost_kmh))
            IN  IF Raised(spotreba_wh_km_solar) \/ Raised(doba_jizdy_h)
                THEN RangeRaised
                ELSE [raised |-> FALSE,
                      spotreba_wh_km |-> spotreba_wh_km,
                      spotreba_wh_km_solar |-> spotreba_wh_km_solar,
                      dojezd_bat |-> dojezd_bat,
                      dojezd_solar |-> dojezd_solar,
                      bonus_km |-> RSub(dojezd_solar, dojezd_bat),
                      doba_jizdy_h |-> doba_jizdy_h,
                      dodana_energie_wh |-> RMul(P_solar_w, doba_jizdy_h)]

\* The messages under the max-range metrics.
RangeMessages(asistence_proc, can_hold_speed, P_motor_elec) ==
    (IF asistence_proc > 0 /\ ~can_hold_speed THEN {"warning_speed"} ELSE {})
    \cup (IF RLe(P_motor_elec, Zero) THEN {"info_assist_0"} ELSE {})

\* TripBatteryDraw with the 1e-6 W floor of the max-range section.
TripBatteryDraw_EpsFloor(P_motor_elec, P_solar_w) ==
    RMax(RSub(P_motor_elec, P_solar_w), EPS_NET)

\* TripBatteryDraw without the solar offset.
TripBatteryDraw_NoSolar(P_motor_elec, P_solar_w) == P_motor_elec

\* Net battery draw of the trip analysis: solar lowers the draw, floored at 0.
TripBatteryDraw(P_motor_elec, P_solar_w) ==
    RMax(RSub(P_motor_elec, P_solar_w), Zero)

\* SolarSharePct without the cap at 100 %.
SolarSharePct_NoCap(solar_share) == RMul(solar_share, RInt(100))

SolarSharePct(solar_share) == RMin(RMul(solar_share, RInt(100)), RInt(100))

\* The analysis of one trip (entered for rychlost_kmh > 0 and trip_km > 0).
TripAnalysis(trip_km, rychlost_kmh, P_motor_elec, P_solar_w, kapacita_wh_eff) ==
    LET trip_time_h == PyDiv(trip_km, RInt(rychlost_kmh))
        E_motor_wh  == RMul(P_motor_elec, trip_time_h)
        E_solar_wh  == RMul(P_solar_w, trip_time_h)
        E_batt_wh   == RMul(TripBatteryDraw(P_motor_elec, P_solar_w), trip_time_h)
        dod_trip    == IF RGt(kapacita_wh_eff, Zero)
                       THEN PyDiv(E_batt_wh, kapacita_wh_eff) ELSE Zero
        solar_share == IF RGt(E_motor_wh, Zero)
                       THEN PyDiv(E_solar_wh, E_motor_wh) ELSE Zero
        remaining_wh == RMax(RSub(kapacita_wh_eff, E_batt_wh), Zero)
    IN  [trip_time_h |-> trip_time_h,
         E_motor_wh |-> E_motor_wh, E_solar_wh |-> E_solar_wh,
         E_batt_wh |-> E_batt_wh,
         dod_trip |-> dod_trip, dod_trip_pct |-> RMul(dod_trip, RInt(100)),
         solar_share |-> solar_share,
         solar_share_pct |-> SolarSharePct(solar_share),
         remaining_wh |-> remaining_wh,
         remaining_pct |-> IF RGt(kapacita_wh_eff, Zero)
                           THEN RMul(PyDiv(remaining_wh, kapacita_wh_eff), RInt(100))
                           ELSE Zero]

\* TripStatus with the battery test E_batt_wh >= kapacita_wh_eff.
TripStatus_AtCapacity(P_motor_elec, E_batt_wh, kapacita_wh_eff, dod_trip_pct) ==
    IF RLe(P_motor_elec, Zero) THEN {"info_motor_0"}
    ELSE IF RGe(E_batt_wh, kapacita_wh_eff) THEN {"error_battery"}
    ELSE IF RGt(dod_trip_pct, RInt(80)) THEN {"warning_dod"}
    ELSE {}

\* The status messages of the trip analysis.
TripStatus(P_motor_elec, E_batt_wh, kapacita_wh_eff, dod_trip_pct) ==
    IF RLe(P_motor_elec, Zero) THEN {"info_motor_0"}
    ELSE IF RGt(E_batt_wh, kapacita_wh_eff) THEN {"error_battery"}
    ELSE IF RGt(dod_trip_pct, RInt(80)) THEN {"warning_dod"}
    ELSE {}

(***************************************************************************)
(* State of one run of the script.                                         *)
(***************************************************************************)
VARIABLES
    pc,           \* the section the run is about to execute
    inp,          \* the widget values
    loc,          \* sklon_proc, solar_G
    solar,        \* cos_theta, P_solar_w
    ride,         \* forces, powers and can_hold_speed
    batt,         \* temp_factor, kapacita_wh_eff
    rng,          \* the max-range results
    trip,         \* the trip analysis, when performed
    msgs,         \* the st.info / st.warning / st.error / st.caption shown
    hours_float,  \* the argument of format_hours_minutes
    cas_jizdy,    \* the string format_hours_minutes returned
    exc           \* the exception that ended the run, or "none"

vars == <<pc, inp, loc, solar, ride, batt, rng, trip, msgs,
          hours_float, cas_jizdy, exc>>

Unset == [unset |-> TRUE]

\* The widgets' default values.
Defaults ==
    [hmotnost |-> 100, rychlost_kmh |-> 25, vykon_jezdec |-> 120,
     teplota_c |-> 20, kapacita_wh |-> 540, asistence_proc |-> 100,
     vykon_motoru_nom |-> 250, uhel_stupne |-> 30, vykon_panelu_wp |-> 100,
     lokalita |-> "Kladno (centrum - mesto)", custom_sklon |-> Zero, custom_G |-> 700,
     trip_km |-> RInt(20)]

(***************************************************************************)
(* The sections, in the order the script executes them.                    *)
(***************************************************************************)
SelectLocation ==
    /\ pc = "lokalita"
    /\ loc' = Location(inp.lokalita, inp.custom_sklon, inp.custom_G)
    /\ pc' = "solar"
    /\ UNCHANGED <<inp, solar, ride, batt, rng, trip, msgs, hours_float, cas_jizdy, exc>>

ComputeSolar ==
    /\ pc = "solar"
    /\ solar' = SolarPower(inp.uhel_stupne, inp.vykon_panelu_wp, loc.solar_G)
    /\ pc' = "ride"
    /\ UNCHANGED <<inp, loc, ride, batt, rng, trip, msgs, hours_float, cas_jizdy, exc>>

ComputeRide ==
    /\ pc = "ride"
    /\ LET f == RideForces(inp.hmotnost, inp.rychlost_kmh, loc.sklon_proc)
           m == MotorPower(inp.vykon_motoru_nom, inp.asistence_proc)
           P_rider == RInt(inp.vykon_jezdec)
           P_mech_total_available == RAdd(P_rider, m.P_motor_mech)
       IN  ride' = [v_ms |-> f.v_ms, F_air |-> f.F_air, F_roll |-> f.F_roll,
                    F_slope |-> f.F_slope, F_total |-> f.F_total,
                    P_mech_required |-> f.P_mech_required,
                    P_motor_elec |-> m.P_motor_elec,
                    P_motor_mech |-> m.P_motor_mech,
                    P_rider |-> P_rider,
                    P_mech_total_available |-> P_mech_total_available,
                    can_hold_speed |->
                        CanHoldSpeed(inp.asistence_proc, P_rider,
                                     P_mech_total_available, f.P_mech_required)]
    /\ pc' = "battery"
    /\ UNCHANGED <<inp, loc, solar, batt, rng, trip, msgs, hours_float, cas_jizdy, exc>>

ComputeBatteryTemp ==
    /\ pc = "battery"
    /\ LET temp_factor == battery_temp_factor(inp.teplota_c)
       IN  batt' = [temp_factor |-> temp_factor,
                    kapacita_wh_eff |-> RMul(RInt(inp.kapacita_wh), temp_factor)]
    /\ pc' = "range"
    /\ UNCHANGED <<inp, loc, solar, ride, rng, trip, msgs, hours_float, cas_jizdy, exc>>

ComputeMaxRange ==
    /\ pc = "range"
    /\ LET r == MaxRange(ride.P_motor_elec, inp.rychlost_kmh, solar.P_solar_w,
                         batt.kapacita_wh_eff)
       IN  IF r.raised
           THEN /\ exc' = "ZeroDivisionError"
                /\ pc' = "crashed"
                /\ rng' = rng
           ELSE /\ rng' = r
                /\ pc' = "range_ui"
                /\ exc' = exc
    /\ UNCHANGED <<inp, loc, solar, ride, batt, trip, msgs, hours_float, cas_jizdy>>

ShowMaxRange ==
    /\ pc = "range_ui"
    /\ msgs' = RangeMessages(inp.asistence_proc, ride.can_hold_speed, ride.P_motor_elec)
    /\ pc' = "trip"
    /\ UNCHANGED <<inp, loc, solar, ride, batt, rng, trip, hours_float, cas_jizdy, exc>>

AnalyseTrip ==
    /\ pc = "trip"
    /\ inp.rychlost_kmh > 0 /\ RGt(inp.trip_km, Zero)
    /\ LET t == TripAnalysis(inp.trip_km, inp.rychlost_kmh, ride.P_motor_elec,
                             solar.P_solar_w, batt.kapacita_wh_eff)
       IN  /\ trip' = t
           /\ hours_float' = t.trip_time_h
           /\ cas_jizdy' = format_hours_minutes(t.trip_time_h)
           /\ msgs' = msgs \cup TripStatus(ride.P_motor_elec, t.E_batt_wh,
                                           batt.kapacita_wh_eff, t.dod_trip_pct)
    /\ pc' = "done"
    /\ UNCHANGED <<inp, loc, solar, ride, batt, rng, exc>>

SkipTrip ==
    /\ pc = "trip"
    /\ ~(inp.rychlost_kmh > 0 /\ RGt(inp.trip_km, Zero))
    /\ msgs' = msgs \cup {"caption_no_trip"}
    /\ pc' = "done"
    /\ UNCHANGED <<inp, loc, solar, ride, batt, rng, trip, hours_float, cas_jizdy, exc>>

\* A call of format_hours_minutes on its own.
FormatCall ==
    /\ pc = "format"
    /\ cas_jizdy' = format_hours_minutes(hours_float)
    /\ pc' = "done"
    /\ UNCHANGED <<inp, loc, solar, ride, batt, rng, trip, msgs, hours_float, exc>>

Next ==
    \/ SelectLocation
    \/ ComputeSolar
    \/ ComputeRide
    \/ ComputeBatteryTemp
    \/ ComputeMaxRange
    \/ ShowMaxRange
    \/ AnalyseTrip
    \/ SkipTrip

(***************************************************************************)
(* The widget values a run starts with.  Every value lies in its widget's  *)
(* range (min_value .. max_value, slider ends, the location list).         *)
(***************************************************************************)
\* Location choices: a catalogue entry, or the custom sliders.
Catalogue(l) == [lokalita |-> l, custom_sklon |-> Zero, custom_G |-> 700]
Custom(sklon, G) == [lokalita |-> VLASTNI, custom_sklon |-> sklon, custom_G |-> G]

\* Runs that vary the riding inputs.
RideInputs ==
    { [Defaults EXCEPT !.hmotnost = m, !.rychlost_kmh = v, !.vykon_jezdec = p,
                       !.asistence_proc = a, !.vykon_motoru_nom = n,
                       !.lokalita = l.lokalita, !.custom_sklon = l.custom_sklon,
                       !.custom_G = l.custom_G] :
        m \in {30, 100, 250}, v \in {1, 25, 60}, p \in {0, 120},
        a \in {0, 100}, n \in {0, 250},
        l \in {Catalogue("Kladno (centrum - mesto)"), Catalogue("Karlstejn"),
               Custom(RInt(-5), 700), Custom(RInt(15), 700)} }

\* Runs that vary the energy inputs.
EnergyInputs ==
    { [Defaults EXCEPT !.rychlost_kmh = v, !.teplota_c = t, !.kapacita_wh = k,
                       !.asistence_proc = an[1], !.vykon_motoru_nom = an[2],
                       !.uhel_stupne = u, !.vykon_panelu_wp = w,
                       !.lokalita = l.lokalita, !.custom_sklon = l.custom_sklon,
                       !.custom_G = l.custom_G, !.trip_km = d] :
        v \in {1, 25}, t \in {-20, 25}, k \in {50, 540},
        an \in {<<0, 250>>, <<1, 187>>, <<100, 250>>},
        u \in {0, 11}, w \in {6, 100},
        l \in {Catalogue("Stochov + Lany"), Custom(Zero, 1000), Custom(Zero, 0)},
        d \in {Zero, RInt(20), RInt(54), RDec(675, 1), RInt(40000000)} }

WidgetInputs == RideInputs \cup EnergyInputs

Start(inputs, at) ==
    /\ pc = at
    /\ inp \in inputs
    /\ loc = Unset /\ solar = Unset /\ ride = Unset /\ batt = Unset
    /\ rng = Unset /\ trip = Unset
    /\ msgs = {}
    /\ hours_float = None
    /\ cas_jizdy = ""
    /\ exc = "none"

Init == Start(WidgetInputs, "lokalita")

Spec == Init /\ [][Next]_vars

(***************************************************************************)
(* battery_temp_factor on its own: the battery section run for every       *)
(* temperature in -MaxTemp .. MaxTemp.                                     *)
(***************************************************************************)
MaxTemp == 60

TempInputs ==
    { [Defaults EXCEPT !.teplota_c = t, !.kapacita_wh = k] :
        t \in -MaxTemp .. MaxTemp, k \in {50, 540} }

InitTemp == Start(TempInputs, "battery")

NextTemp == ComputeBatteryTemp

SpecTemp == InitTemp /\ [][NextTemp]_vars

(***************************************************************************)
(* format_hours_minutes on its own: None, 4/5 h and every k/128 h (exact   *)
(* as a double, as is its product with 60) for k in -8 .. MaxHours128.     *)
(***************************************************************************)
MaxHours128 == 200

Hours128(k) == IF k = 0 THEN Zero
               ELSE [sg |-> IF k < 0 THEN -1 ELSE 1,
                     n  |-> BInt(IF k < 0 THEN -k ELSE k), d |-> BInt(128)]

HoursValues == {None, RDec(8, 1)} \cup { Hours128(k) : k \in -8 .. MaxHours128 }

InitFmt ==
    /\ pc = "format"
    /\ hours_float \in HoursValues
    /\ inp = Defaults
    /\ loc = Unset /\ solar = Unset /\ ride = Unset /\ batt = Unset
    /\ rng = Unset /\ trip = Unset
    /\ msgs = {}
    /\ cas_jizdy = ""
    /\ exc = "none"

NextFmt == FormatCall

SpecFmt == InitFmt /\ [][NextFmt]_vars

(***************************************************************************)
(* The computation as a function of any numbers: the inputs also take      *)
(* values no widget allows (speed 0 or negative, capacity 0 or negative).  *)
(***************************************************************************)
CoreInputs ==
    { [Defaults EXCEPT !.rychlost_kmh = v, !.kapacita_wh = k,
                       !.asistence_proc = a, !.vykon_motoru_nom = n,
                       !.vykon_panelu_wp = w, !.trip_km = d] :
        v \in {-10, 0, 25}, k \in {-100, 0, 540}, a \in {0, 100},
        n \in {0, 250}, w \in {0, 100, 1000}, d \in {Zero, RInt(20)} }

InitCore == Start(CoreInputs, "lokalita")

SpecCore == InitCore /\ [][Next]_vars

(***************************************************************************)
(* What the properties below speak about.                                  *)
(***************************************************************************)
RangeComputed == pc \in {"range_ui", "trip", "done"}
RideComputed  == pc \in {"battery", "range", "range_ui", "trip", "done", "crashed"}
TripPerformed == pc = "done" /\ "trip_time_h" \in DOMAIN trip

\* The inputs of the range model and of the trip analysis, from the widgets.
MotorElecW == RDiv(RInt(inp.vykon_motoru_nom * inp.asistence_proc), RInt(100))
SpeedKmh   == RInt(inp.rychlost_kmh)
SolarW     == solar.P_solar_w
EffectiveCapacityWh == batt.kapacita_wh_eff
NetDrawW   == IF RGe(RSub(MotorElecW, SolarW), RDec(1, 6))
              THEN RSub(MotorElecW, SolarW) ELSE RDec(1, 6)

(***************************************************************************)
(* C1: the range computation returns the reference result.  With           *)
(* P = nominal draw x assist/100: for P <= 0 consumption (battery-only and *)
(* solar), both ranges, bonus, duration and delivered solar energy are 0;  *)
(* otherwise consumption = P / speed, battery range = capacity /           *)
(* consumption, net draw = max(P - solar, 1e-6), solar range = capacity /  *)
(* (net draw / speed), bonus = solar range - battery range, duration =     *)
(* solar range / speed, delivered = solar x duration.  250 W, 25 km/h,     *)
(* 540 Wh, solar 50 W: 8 Wh/km, 67.5 km, bonus 13.5 km; solar 0 W: 54 km   *)
(* for both ranges.                                                        *)
(***************************************************************************)
C1_Example ==
    /\ REq(MotorElecW, RInt(250)) /\ inp.rychlost_kmh = 25
    /\ REq(EffectiveCapacityWh, RInt(540))

C1_RangeReference ==
    RangeComputed =>
      /\ IF RLe(MotorElecW, Zero)
         THEN /\ REq(rng.spotreba_wh_km, Zero)
              /\ REq(rng.spotreba_wh_km_solar, Zero)
              /\ REq(rng.dojezd_bat, Zero)
              /\ REq(rng.dojezd_solar, Zero)
              /\ REq(rng.bonus_km, Zero)
              /\ REq(rng.doba_jizdy_h, Zero)
              /\ REq(rng.dodana_energie_wh, Zero)
         ELSE /\ REq(RMul(rng.spotreba_wh_km, SpeedKmh), MotorElecW)
              /\ REq(RMul(rng.dojezd_bat, rng.spotreba_wh_km), EffectiveCapacityWh)
              /\ REq(RMul(rng.spotreba_wh_km_solar, SpeedKmh), NetDrawW)
              /\ REq(RMul(rng.dojezd_solar, rng.spotreba_wh_km_solar),
                     EffectiveCapacityWh)
              /\ REq(RAdd(rng.dojezd_bat, rng.bonus_km), rng.dojezd_solar)
              /\ REq(RMul(rng.doba_jizdy_h, SpeedKmh), rng.dojezd_solar)
              /\ REq(rng.dodana_energie_wh, RMul(SolarW, rng.doba_jizdy_h))
      /\ (C1_Example /\ REq(SolarW, RInt(50)) =>
              /\ REq(rng.spotreba_wh_km_solar, RInt(8))
              /\ REq(rng.dojezd_solar, RDec(675, 1))
              /\ REq(rng.bonus_km, RDec(135, 1)))
      /\ (C1_Example /\ REq(SolarW, Zero) =>
              /\ REq(rng.dojezd_bat, RInt(54))
              /\ REq(rng.dojezd_solar, RInt(54)))

\* C1's case: the 250 W / 25 km/h / 540 Wh / 50 W run has been computed.
C1_Witness ==
    /\ RangeComputed /\ C1_Example /\ REq(SolarW, RInt(50))
    /\ REq(rng.dojezd_solar, RDec(675, 1))

(***************************************************************************)
(* C2: for motor draw > 0 and solar power > 0 (speed > 0, capacity > 0)    *)
(* the solar-assisted range is at least the battery-only range, so the     *)
(* bonus is never negative, also where solar >= motor draw and the 1e-6 W  *)
(* floor applies.                                                          *)
(***************************************************************************)
C2_SolarNeverShortens ==
    (/\ RangeComputed
     /\ RGt(MotorElecW, Zero) /\ RGt(SolarW, Zero)
     /\ inp.rychlost_kmh > 0 /\ RGt(EffectiveCapacityWh, Zero))
    => /\ RGe(rng.dojezd_solar, rng.dojezd_bat)
       /\ RGe(rng.bonus_km, Zero)

\* C2's case: solar covers the whole motor draw and the floor applies.
C2_Witness ==
    /\ RangeComputed
    /\ RGt(MotorElecW, Zero) /\ RGe(SolarW, MotorElecW)
    /\ RGt(rng.bonus_km, Zero)

(***************************************************************************)
(* C3: battery_temp_factor is total and piecewise: 1.0 for t >= 25,        *)
(* 1.0 - (25 - t) x 0.006 for 0 <= t < 25, max(0.65, 0.85 + 0.02 x t) for  *)
(* t < 0; the result lies in [0.65, 1.0], is 1.0 at 25, 0.85 at 0, 0.65 at *)
(* -10 and below, and the pieces agree at the boundaries 0 and 25.         *)
(* Stated in thousandths, in integers.                                     *)
(***************************************************************************)
TempFactorMilli(t) ==
    IF t >= 25 THEN 1000
    ELSE IF t >= 0 THEN 1000 - (25 - t) * 6
    ELSE IF 850 + 20 * t > 650 THEN 850 + 20 * t ELSE 650

C3_TempFactorPiecewise ==
    pc = "range" =>
      LET t == inp.teplota_c
          f == batt.temp_factor
      IN  /\ REq(f, RDec(TempFactorMilli(t), 3))
          /\ RGe(f, RDec(65, 2)) /\ RLe(f, RInt(1))
          /\ (t = 25 => REq(f, RInt(1)) /\ 1000 - (25 - t) * 6 = 1000)
          /\ (t = 0 => REq(f, RDec(85, 2)) /\ 850 + 20 * t = 850)
          /\ (t <= -10 => REq(f, RDec(65, 2)))
          /\ REq(batt.kapacita_wh_eff, RMul(RInt(inp.kapacita_wh), f))

\* C3's case: the factor of -50 degrees, far below the floor's start.
C3_Witness ==
    /\ pc = "range" /\ inp.teplota_c = -50
    /\ REq(batt.temp_factor, RDec(65, 2))

(***************************************************************************)
(* C4: for a performed trip analysis, battery energy = max(motor - solar,  *)
(* 0) x (trip / speed) with a hard zero floor, DoD = battery energy /      *)
(* capacity for capacity > 0, remaining = max(capacity - battery energy,   *)
(* 0); for solar >= motor the battery energy and the DoD are 0 and the     *)
(* remaining energy is the full capacity; the remaining energy is in       *)
(* 0 .. capacity.  20 km at 25 km/h, 250 W, 50 W solar, 540 Wh: 160 Wh,    *)
(* DoD 160/540, 380 Wh remaining.                                          *)
(***************************************************************************)
C4_Example ==
    /\ REq(inp.trip_km, RInt(20)) /\ inp.rychlost_kmh = 25
    /\ REq(MotorElecW, RInt(250)) /\ REq(SolarW, RInt(50))
    /\ REq(EffectiveCapacityWh, RInt(540))

C4_TripEnergy ==
    TripPerformed =>
      LET net == IF RGt(MotorElecW, SolarW) THEN RSub(MotorElecW, SolarW) ELSE Zero
          cap == EffectiveCapacityWh
      IN  /\ REq(RMul(trip.E_batt_wh, SpeedKmh), RMul(net, inp.trip_km))
          /\ (RGt(cap, Zero) => REq(RMul(trip.dod_trip, cap), trip.E_batt_wh))
          /\ IF RLe(trip.E_batt_wh, cap)
             THEN REq(RAdd(trip.remaining_wh, trip.E_batt_wh), cap)
             ELSE REq(trip.remaining_wh, Zero)
          /\ RGe(trip.remaining_wh, Zero) /\ RLe(trip.remaining_wh, cap)
          /\ (RGe(SolarW, MotorElecW) =>
                 /\ REq(trip.E_batt_wh, Zero) /\ REq(trip.dod_trip, Zero)
                 /\ REq(trip.remaining_wh, cap))
          /\ (C4_Example =>
                 /\ REq(trip.E_batt_wh, RInt(160))
                 /\ REq(trip.dod_trip, RDiv(RInt(160), RInt(540)))
                 /\ REq(trip.remaining_wh, RInt(380)))

\* C4's case: solar covers a running motor over a performed trip.
C4_Witness ==
    /\ TripPerformed
    /\ RGt(MotorElecW, Zero) /\ RGe(SolarW, MotorElecW)
    /\ REq(trip.E_batt_wh, Zero) /\ REq(trip.remaining_wh, EffectiveCapacityWh)

(***************************************************************************)
(* C5, as claimed: each of the three trip flags is raised exactly when its *)
(* own condition holds, independently of the other two: "insufficient      *)
(* battery" when battery energy > capacity, "high DoD" when DoD > 0.80,    *)
(* "assist disabled" when motor draw <= 0.                                 *)
(***************************************************************************)
C5_FlagsIndependent ==
    TripPerformed =>
      /\ ("error_battery" \in msgs) = RGt(trip.E_batt_wh, EffectiveCapacityWh)
      /\ ("warning_dod" \in msgs) = RGt(trip.dod_trip, RDec(80, 2))
      /\ ("info_motor_0" \in msgs) = RLe(MotorElecW, Zero)

(***************************************************************************)
(* C5, amended: "assist disabled" is raised exactly when motor draw <= 0   *)
(* and "insufficient battery" exactly when battery energy > capacity, but  *)
(* "high DoD" is raised exactly when DoD > 0.80 and the battery energy     *)
(* does not exceed the capacity: at most one of the three is raised.       *)
(***************************************************************************)
C5_FlagsBySeverity ==
    TripPerformed =>
      /\ ("info_motor_0" \in msgs) = RLe(MotorElecW, Zero)
      /\ ("error_battery" \in msgs) = RGt(trip.E_batt_wh, EffectiveCapacityWh)
      /\ ("warning_dod" \in msgs) =
            (/\ RGt(trip.dod_trip, RDec(80, 2))
             /\ RLe(trip.E_batt_wh, EffectiveCapacityWh))
      /\ Cardinality(msgs \cap {"info_motor_0", "error_battery", "warning_dod"}) <= 1

\* C5's case: the battery does not suffice, the DoD is above 0.80, and only
\* the battery error is shown.
C5_Witness ==
    /\ TripPerformed
    /\ RGt(trip.E_batt_wh, EffectiveCapacityWh) /\ RGt(trip.dod_trip, RDec(80, 2))
    /\ "error_battery" \in msgs /\ "warning_dod" \notin msgs

(***************************************************************************)
(* C8: for a performed trip analysis the solar share of the motor energy   *)
(* is min(solar energy / motor energy, 1) for motor energy > 0 and 0       *)
(* otherwise; it lies in 0 .. 100 %, also when the solar energy of the     *)
(* trip exceeds the motor energy.                                          *)
(***************************************************************************)
C8_SolarShareCapped ==
    TripPerformed =>
      LET pct == trip.solar_share_pct
      IN  /\ RGe(pct, Zero) /\ RLe(pct, RInt(100))
          /\ IF RGt(trip.E_motor_wh, Zero)
             THEN IF RLe(trip.E_solar_wh, trip.E_motor_wh)
                  THEN REq(RMul(pct, trip.E_motor_wh),
                           RMul(RInt(100), trip.E_solar_wh))
                  ELSE REq(pct, RInt(100))
             ELSE REq(pct, Zero)
          /\ REq(RMul(trip.E_motor_wh, SpeedKmh), RMul(MotorElecW, inp.trip_km))
          /\ REq(RMul(trip.E_solar_wh, SpeedKmh), RMul(SolarW, inp.trip_km))

\* C8's case: the trip harvests more solar energy than the motor consumes.
C8_Witness ==
    /\ TripPerformed
    /\ RGt(trip.E_motor_wh, Zero) /\ RGt(trip.E_solar_wh, trip.E_motor_wh)
    /\ REq(trip.solar_share_pct, RInt(100))

(***************************************************************************)
(* C6: format_hours_minutes.  For hours = k/128 the product hours x 60 is  *)
(* 15k/32 minutes; the expected minutes are computed in integers.          *)
(***************************************************************************)
HalfUpMinutes(k) == (15 * k + 16) \div 32

HalfEvenMinutes(k) ==
    LET q == (15 * k) \div 32
        r == (15 * k) % 32
    IN  IF r < 16 THEN q
        ELSE IF r > 16 THEN q + 1
        ELSE IF q % 2 = 0 THEN q ELSE q + 1

HoursMinutesText(total) ==
    ToString(total \div 60) \o " h " \o ToString(total % 60) \o " min"

\* What the call returned, with a tie rounded up (tie_up) or to the even minute.
FormatReturns(tie_up) ==
    pc = "done" =>
      IF IsNone(hours_float) THEN cas_jizdy = "0 h 0 min"
      ELSE /\ \A k \in -8 .. MaxHours128 :
                 hours_float = Hours128(k) =>
                     cas_jizdy = IF k <= 0 THEN "0 h 0 min"
                                 ELSE IF tie_up
                                 THEN HoursMinutesText(HalfUpMinutes(k))
                                 ELSE HoursMinutesText(HalfEvenMinutes(k))
           /\ (REq(hours_float, RDec(8, 1)) => cas_jizdy = "0 h 48 min")

\* C6, as claimed: "0 h 0 min" for hours None, 0 or negative; for hours > 0
\* hours x 60 is rounded to the nearest minute, a tie rounded up, and split
\* into H = minutes div 60 and M = minutes mod 60 in 0 .. 59; 0.8 h gives
\* "0 h 48 min".
C6_FormatHalfUp == FormatReturns(TRUE)

\* C6, amended: as claimed, but a tie (exactly k + 0.5 minutes) is rounded to
\* the even minute: to k + 1 for odd k and to k for even k.
C6_FormatHalfEven == FormatReturns(FALSE)

\* C6's case: 0.375 h is 22.5 minutes, a tie, and is shown as 22 minutes.
C6_Witness ==
    /\ pc = "done" /\ ~IsNone(hours_float)
    /\ hours_float = Hours128(48)
    /\ cas_jizdy = "0 h 22 min"

(***************************************************************************)
(* C7, as claimed: the computation is total: for every numeric input,      *)
(* also with a zero or negative denominator (speed 0 with motor draw > 0,  *)
(* capacity <= 0, motor energy 0), no step of the range computation or of  *)
(* the trip analysis raises a division fault.                              *)
(***************************************************************************)
C7_NoDivisionFault == exc = "none" /\ pc # "crashed"

(***************************************************************************)
(* C9: can_hold_speed is true exactly when the available mechanical power  *)
(* is at least the required one; available is the rider power at 0 %       *)
(* assist and rider + nominal draw x assist/100 x 0.85 above 0 %; required *)
(* is the total resistive force, clamped to >= 0, x speed in m/s.  The     *)
(* motor's mechanical power is 0 at 0 % assist, so the flag is             *)
(* (rider + motor mechanical >= required) at every assist level, and the   *)
(* required power is never negative.                                       *)
(***************************************************************************)
C9_Feasibility ==
    RideComputed =>
      LET rider      == RInt(inp.vykon_jezdec)
          motor_mech == RDiv(RInt(inp.vykon_motoru_nom * inp.asistence_proc * 17),
                             RInt(2000))
          available  == IF inp.asistence_proc = 0 THEN rider
                        ELSE RAdd(rider, motor_mech)
          forces     == RAdd(RAdd(ride.F_air, ride.F_roll), ride.F_slope)
          required   == ride.P_mech_required
      IN  /\ ride.can_hold_speed = RGe(available, required)
          /\ ride.can_hold_speed = RGe(RAdd(rider, ride.P_motor_mech), required)
          /\ REq(ride.P_motor_mech, motor_mech)
          /\ (inp.asistence_proc = 0 => REq(ride.P_motor_mech, Zero))
          /\ RGe(ride.F_total, Zero) /\ RGe(ride.F_total, forces)
          /\ (REq(ride.F_total, forces) \/ REq(ride.F_total, Zero))
          /\ REq(RMul(required, RInt(18)),
                 RMul(ride.F_total, RInt(5 * inp.rychlost_kmh)))
          /\ RGe(required, Zero)

\* C9's case: the rider alone cannot hold the speed, rider and motor can.
C9_Witness ==
    /\ RideComputed
    /\ inp.asistence_proc > 0
    /\ RLt(ride.P_rider, ride.P_mech_required)
    /\ RGe(ride.P_mech_total_available, ride.P_mech_required)
    /\ ride.can_hold_speed

(***************************************************************************)
(* C10, as claimed: for motor draw > 0, speed > 0 and capacity > 0, a trip *)
(* of at most the solar-assisted range needs no more battery energy than   *)
(* the capacity ("insufficient battery" is not flagged, DoD <= 1); and for *)
(* solar power strictly below the motor draw a trip strictly longer than   *)
(* the solar-assisted range needs more battery energy than the capacity.   *)
(***************************************************************************)
C10_Case ==
    /\ TripPerformed
    /\ RGt(MotorElecW, Zero) /\ inp.rychlost_kmh > 0
    /\ RGt(EffectiveCapacityWh, Zero)

C10_WithinRange ==
    RLe(inp.trip_km, rng.dojezd_solar) =>
        /\ RLe(trip.E_batt_wh, EffectiveCapacityWh)
        /\ "error_battery" \notin msgs
        /\ RLe(trip.dod_trip, RInt(1))

====
